---- MODULE Spec2Model ----
(***************************************************************************)
(* Model of the Marty chat backend (src/app.py): the POST /chat handler    *)
(* chat_endpoint, its helpers lightly_season and tts_to_file, the audio    *)
(* directory static/audio and the millisecond clock that names the files.  *)
(*                                                                         *)
(* Strings are sequences of one-character strings, so that strip,          *)
(* startswith and the catchphrase prefix are computed as Python computes   *)
(* them.  The typographic apostrophe and dash of the source literals are   *)
(* written ' and - here.  Probabilities are percentages: CATCHPHRASE_PROB  *)
(* 0.30 is 30, and a draw of random.random() in [0,1) is a value in 0..99. *)
(*                                                                         *)
(* A request is a thread of the server: the steps of different requests    *)
(* interleave between any two blocking calls and file operations.          *)
(***************************************************************************)
EXTENDS Integers, Sequences, FiniteSets, TLC

(***************************************************************************)
(* Bounds of the model.                                                    *)
(***************************************************************************)
\* number of /chat requests that may be in flight together
NumReqs == 2

\* the values int(time.time()*1000) takes are 0..MaxClock
MaxClock == 1

\* how many times the seasoning specification applies lightly_season
MaxSeasonings == 3

Reqs == 1..NumReqs

Times == 0..MaxClock

(***************************************************************************)
(* String literals of the source.                                          *)
(***************************************************************************)
CP_RIGHT_THEN ==
   << "R", "i", "g", "h", "t", " ", "t", "h", "e", "n", "," >>

CP_GOOD_SHOUT ==
   << "G", "o", "o", "d", " ", "s", "h", "o", "u", "t", "." >>

CP_LETS_SORT ==
   << "L", "e", "t", "'", "s", " ", "s", "o", "r", "t", " ", "t", "h", "a",
      "t", "." >>

CP_NO_WORRIES ==
   << "N", "o", " ", "w", "o", "r", "r", "i", "e", "s", "." >>

CP_NO_PROBLEM ==
   << "N", "o", " ", "p", "r", "o", "b", "l", "e", "m", "." >>

CP_GOT_IT ==
   << "G", "o", "t", " ", "i", "t", "!", "." >>

FALLBACK_GREETING ==
   << "I", "'", "m", " ", "h", "e", "r", "e", "-", "h", "o", "w", " ", "c",
      "a", "n", " ", "I", " ", "h", "e", "l", "p", "?" >>

FALLBACK_APOLOGY ==
   << "S", "o", "r", "r", "y", ",", " ", "I", " ", "h", "i", "t", " ", "a",
      " ", "s", "n", "a", "g", " ", "g", "e", "n", "e", "r", "a", "t", "i",
      "n", "g", " ", "t", "h", "a", "t", ".", " ", "W", "a", "n", "t", " ",
      "t", "o", " ", "t", "r", "y", " ", "a", " ", "d", "i", "f", "f", "e",
      "r", "e", "n", "t", " ", "w", "a", "y", "?" >>

ERR_NO_MESSAGE ==
   << "N", "o", " ", "m", "e", "s", "s", "a", "g", "e", " ", "p", "r", "o",
      "v", "i", "d", "e", "d" >>

CATCHPHRASES ==
   << CP_RIGHT_THEN, CP_GOOD_SHOUT, CP_LETS_SORT, CP_NO_WORRIES,
      CP_NO_PROBLEM, CP_GOT_IT >>

\* values of MARTY_PHRASE_PROB the process may be started with (percent)
ProbValues == {0, 30, 100}

\* values of random.random() (percent): below, at and above the default 0.30
Draws == {0, 30, 99}

(***************************************************************************)
(* Python string and truthiness helpers.                                   *)
(***************************************************************************)
Whitespace == {" ", "\n"}

RECURSIVE lstrip(_)
lstrip(s) ==
   IF s # << >> /\ Head(s) \in Whitespace THEN lstrip(Tail(s)) ELSE s

RECURSIVE rstrip(_)
rstrip(s) ==
   IF s # << >> /\ s[Len(s)] \in Whitespace
   THEN rstrip(SubSeq(s, 1, Len(s) - 1))
   ELSE s

\* str.strip()
strip(s) == rstrip(lstrip(s))

\* str.startswith(p)
startswith(text, p) ==
   Len(p) <= Len(text) /\ SubSeq(text, 1, Len(p)) = p

(***************************************************************************)
(* JSON values as Flask hands them to the handler.  t is the Python type,  *)
(* n the number (int, bool) or the number of elements (list, dict), s the  *)
(* characters of a str.                                                    *)
(***************************************************************************)
PyNone == [t |-> "None", n |-> 0, s |-> << >>]

PyInt(k) == [t |-> "int", n |-> k, s |-> << >>]

PyStr(x) == [t |-> "str", n |-> 0, s |-> x]

PyList(k) == [t |-> "list", n |-> k, s |-> << >>]

PyDict(k) == [t |-> "dict", n |-> k, s |-> << >>]

\* bool(v)
Truthy(v) ==
   CASE v.t = "None" -> FALSE
     [] v.t = "str" -> v.s # << >>
     [] OTHER -> v.n # 0

\* a key that is not in the dict
Absent == [t |-> "absent", n |-> 0, s |-> << >>]

\* A request body: raw says whether there is a body that parses as JSON,
\* val is the parsed value, msg the value under "message" when val is a dict.
NoBody == [raw |-> "empty", val |-> PyNone, msg |-> Absent]

NotJson == [raw |-> "notjson", val |-> PyNone, msg |-> Absent]

JsonValue(v) == [raw |-> "json", val |-> v, msg |-> Absent]

JsonObject(k, m) == [raw |-> "json", val |-> PyDict(k), msg |-> m]

MSG_HI == << " ", "H", "i", " " >>

MSG_BLANK == << " ", "\n", " " >>

Bodies ==
   { NoBody, NotJson, JsonValue(PyList(0)), JsonValue(PyList(1)),
     JsonObject(0, Absent), JsonObject(1, PyNone), JsonObject(1, PyInt(0)),
     JsonObject(1, PyInt(7)), JsonObject(1, PyStr(<< >>)),
     JsonObject(1, PyStr(MSG_BLANK)), JsonObject(1, PyStr(MSG_HI)) }

\* request.get_json(silent=True): None when there is no JSON to parse
get_json(b) == IF b.raw = "json" THEN b.val ELSE PyNone

\* data = request.get_json(silent=True) or {}
RequestData(b) ==
   IF Truthy(get_json(b)) THEN [val |-> get_json(b), msg |-> b.msg]
   ELSE [val |-> PyDict(0), msg |-> Absent]

\* data.get("message") or ""
MessageOrEmpty(b) ==
   LET m == RequestData(b).msg
       got == IF m.t = "absent" THEN PyNone ELSE m
   IN  IF Truthy(got) THEN got ELSE PyStr(<< >>)

\* data.get and .strip() exist only on a dict and on a str: anything else
\* raises AttributeError, which chat_endpoint does not catch
RaisesAttributeError(b) ==
   \/ RequestData(b).val.t # "dict"
   \/ MessageOrEmpty(b).t # "str"

\* user_message = (data.get("message") or "").strip()
UserMessage(b) == strip(MessageOrEmpty(b).s)

(***************************************************************************)
(* What the two collaborators may answer.                                  *)
(***************************************************************************)
TEXT_BLANK == << " ", "\n" >>

TEXT_OK == << "O", "k", ".", "\n" >>

TEXT_PHRASED == CP_NO_WORRIES \o << " ", "O", "k", "." >>

\* resp.text of a generate_content call that returned
ModelTexts == {TEXT_BLANK, TEXT_OK, TEXT_PHRASED}

\* generate_content raises, or returns a response with some text
GenOutcomes ==
   {[ok |-> FALSE, text |-> << >>]} \cup {[ok |-> TRUE, text |-> t] : t \in ModelTexts}

\* the chunks r.iter_content yields for one synthesis: bytes are numbers
Payloads == { << <<1, 2>> >>, << << >>, <<3>> >> }

\* requests.post raises, raise_for_status raises, open raises, or the stream starts
TtsOutcomes == {"post_error", "bad_status", "open_error", "ok"}

RECURSIVE Flatten(_)
Flatten(cs) == IF cs = << >> THEN << >> ELSE Head(cs) \o Flatten(Tail(cs))

(***************************************************************************)
(* State.                                                                  *)
(***************************************************************************)
VARIABLES
   catchphrase_prob,  \* CATCHPHRASE_PROB, read once at start-up
   catchphrases,      \* the CATCHPHRASES list the process runs with
   clock,             \* int(time.time()*1000)
   disk,              \* static/audio: per file name, whether it exists and its bytes
   pc,                \* where each request is in chat_endpoint
   body,              \* the body the request came with
   bot_text,          \* chat_endpoint's bot_text
   gen_text,          \* bot_text as it was before lightly_season
   tts_text,          \* the "text" of the payload posted to ElevenLabs
   fname,             \* the clock value in the request's filename
   pos,               \* file offset of the request's open file object
   buf,               \* bytes written to the file object and not yet flushed
   chunks,            \* chunks of the response stream not yet iterated
   payload,           \* all the chunks the synthesis call supplied
   audio_url,         \* what tts_to_file returned
   response,          \* the HTTP response sent
   log,               \* the external calls and the response, in order
   s_text,            \* seasoning specification: the text being seasoned
   s_orig,            \* seasoning specification: the text it started from
   s_count            \* seasoning specification: calls of lightly_season so far

cfgvars == <<catchphrase_prob, catchphrases>>

reqvars ==
   <<clock, disk, pc, body, bot_text, gen_text, tts_text, fname, pos, buf,
     chunks, payload, audio_url, response, log>>

seasonvars == <<s_text, s_orig, s_count>>

vars == <<cfgvars, reqvars, seasonvars>>

None == << >>

NoResponse == [status |-> 0, text |-> None, audioUrl |-> None, error |-> None]

NoFile == [exists |-> FALSE, data |-> << >>]

\* f"marty_{int(time.time()*1000)}.mp3"
FileName(t) == <<"marty_", t, ".mp3">>

\* f"/static/audio/{filename}"
AudioUrl(t) == <<"/static/audio/">> \o FileName(t)

\* jsonify({"error": "No message provided"}), 400
BadRequest == [status |-> 400, text |-> None, audioUrl |-> None, error |-> ERR_NO_MESSAGE]

\* Flask's answer to an exception the view does not catch
ServerError == [status |-> 500, text |-> None, audioUrl |-> None, error |-> None]

\* jsonify({"text": bot_text, "audioUrl": audio_url})
Reply(text, url) == [status |-> 200, text |-> text, audioUrl |-> url, error |-> None]

\* CATCHPHRASE_PROB comes from the environment; CATCHPHRASES is the list of
\* the source or, edited as the source invites, an empty one (line 122 tests it)
ConfigInit ==
   /\ catchphrase_prob \in ProbValues
   /\ catchphrases \in {CATCHPHRASES, << >>}

RequestsInit ==
   /\ clock = 0
   /\ disk = [t \in Times |-> NoFile]
   /\ pc = [r \in Reqs |-> "idle"]
   /\ body = [r \in Reqs |-> NoBody]
   /\ bot_text = [r \in Reqs |-> None]
   /\ gen_text = [r \in Reqs |-> None]
   /\ tts_text = [r \in Reqs |-> None]
   /\ fname = [r \in Reqs |-> 0]
   /\ pos = [r \in Reqs |-> 0]
   /\ buf = [r \in Reqs |-> << >>]
   /\ chunks = [r \in Reqs |-> << >>]
   /\ payload = [r \in Reqs |-> << >>]
   /\ audio_url = [r \in Reqs |-> None]
   /\ response = [r \in Reqs |-> NoResponse]
   /\ log = [r \in Reqs |-> << >>]

Init ==
   /\ ConfigInit
   /\ RequestsInit
   /\ s_text = << >>
   /\ s_orig = << >>
   /\ s_count = 0

(***************************************************************************)
(* lightly_season.  draw is random.random(), choice the index that         *)
(* random.choice picks.                                                    *)
(***************************************************************************)
StartsWithCatchphrase(text) ==
   \E i \in 1..Len(catchphrases) : startswith(text, catchphrases[i])

\* lightly_season without the startswith guard
lightly_season_NoGuard(text, draw, choice) ==
   IF text = << >> THEN text
   ELSE IF catchphrases # << >> /\ draw < catchphrase_prob
        THEN catchphrases[choice] \o << " " >> \o text
        ELSE text

\* lightly_season comparing with <= where the source has <
lightly_season_AtMost(text, draw, choice) ==
   IF text = << >> THEN text
   ELSE IF /\ catchphrases # << >>
           /\ draw <= catchphrase_prob
           /\ ~StartsWithCatchphrase(text)
        THEN catchphrases[choice] \o << " " >> \o text
        ELSE text

lightly_season(text, draw, choice) ==
   IF text = << >> THEN text
   ELSE IF /\ catchphrases # << >>
           /\ draw < catchphrase_prob
           /\ ~StartsWithCatchphrase(text)
        THEN catchphrases[choice] \o << " " >> \o text
        ELSE text

\* the indices random.choice may return (none for an empty list)
Choices == IF catchphrases = << >> THEN {1} ELSE 1..Len(catchphrases)

(***************************************************************************)
(* chat_endpoint, one action per step between two blocking calls.          *)
(***************************************************************************)
\* The request arrives; the message is validated; a valid request goes on
\* to call generate_content.
Chat(r, b) ==
   /\ pc[r] = "idle"
   /\ body' = [body EXCEPT ![r] = b]
   /\ IF RaisesAttributeError(b)
      THEN /\ response' = [response EXCEPT ![r] = ServerError]
           /\ pc' = [pc EXCEPT ![r] = "done"]
           /\ log' = [log EXCEPT ![r] = Append(@, "response")]
      ELSE IF UserMessage(b) = << >>
      THEN /\ response' = [response EXCEPT ![r] = BadRequest]
           /\ pc' = [pc EXCEPT ![r] = "done"]
           /\ log' = [log EXCEPT ![r] = Append(@, "response")]
      ELSE /\ pc' = [pc EXCEPT ![r] = "generate"]
           /\ log' = [log EXCEPT ![r] = Append(@, "generate_content")]
           /\ UNCHANGED response
   /\ UNCHANGED <<cfgvars, seasonvars, clock, disk, bot_text, gen_text, tts_text,
                  fname, pos, buf, chunks, payload, audio_url>>

\* the wrong fallback on failure: the greeting where the apology belongs
GeneratedText_WrongFallback(o) ==
   IF ~o.ok THEN FALLBACK_GREETING
   ELSE IF strip(o.text) = << >> THEN FALLBACK_GREETING
   ELSE strip(o.text)

\* bot_text after the try/except around generate_content
GeneratedText(o) ==
   IF ~o.ok THEN FALLBACK_APOLOGY
   ELSE IF strip(o.text) = << >> THEN FALLBACK_GREETING
   ELSE strip(o.text)

\* generate_content returns or raises
GenerateContent(r, o) ==
   /\ pc[r] = "generate"
   /\ bot_text' = [bot_text EXCEPT ![r] = GeneratedText(o)]
   /\ gen_text' = [gen_text EXCEPT ![r] = GeneratedText(o)]
   /\ pc' = [pc EXCEPT ![r] = "season"]
   /\ log' = [log EXCEPT ![r] = Append(@, IF o.ok THEN "generated" ELSE "generate_failed")]
   /\ UNCHANGED <<cfgvars, seasonvars, clock, disk, body, tts_text, fname, pos, buf,
                  chunks, payload, audio_url, response>>

\* bot_text = lightly_season(bot_text), then tts_to_file posts it
Season(r, draw, choice) ==
   /\ pc[r] = "season"
   /\ bot_text' = [bot_text EXCEPT ![r] = lightly_season(bot_text[r], draw, choice)]
   /\ tts_text' = [tts_text EXCEPT ![r] = bot_text'[r]]
   /\ pc' = [pc EXCEPT ![r] = "post"]
   /\ log' = [log EXCEPT ![r] = Append(@, "post")]
   /\ UNCHANGED <<cfgvars, seasonvars, clock, disk, body, gen_text, fname, pos, buf,
                  chunks, payload, audio_url, response>>

\* open(out_path, "wb"): the file exists and is empty
Truncated == [exists |-> TRUE, data |-> << >>]

\* tts_to_file posting again after a failure
TtsPost_Retry(r, o, p) ==
   /\ pc[r] = "post"
   /\ IF o = "ok"
      THEN /\ fname' = [fname EXCEPT ![r] = clock]
           /\ disk' = [disk EXCEPT ![clock] = Truncated]
           /\ pos' = [pos EXCEPT ![r] = 0]
           /\ buf' = [buf EXCEPT ![r] = << >>]
           /\ chunks' = [chunks EXCEPT ![r] = p]
           /\ payload' = [payload EXCEPT ![r] = p]
           /\ pc' = [pc EXCEPT ![r] = "stream"]
           /\ log' = [log EXCEPT ![r] = Append(@, "streaming")]
      ELSE /\ Len(log[r]) < 6
           /\ log' = [log EXCEPT ![r] = Append(@, "post")]
           /\ UNCHANGED <<pc, fname, disk, pos, buf, chunks, payload>>
   /\ UNCHANGED <<cfgvars, seasonvars, clock, body, bot_text, gen_text, tts_text,
                  audio_url, response>>

\* requests.post returns or raises, raise_for_status may raise, and on success
\* the name is taken from the clock and the file is opened for writing, which
\* may raise too.  Reading the clock and opening are one step: the clock may
\* stand still between two steps, so a request that read it earlier opens
\* nothing a request reading it later could not open.
TtsPost(r, o, p) ==
   /\ pc[r] = "post"
   /\ IF o = "ok"
      THEN /\ fname' = [fname EXCEPT ![r] = clock]
           /\ disk' = [disk EXCEPT ![clock] = Truncated]
           /\ pos' = [pos EXCEPT ![r] = 0]
           /\ buf' = [buf EXCEPT ![r] = << >>]
           /\ chunks' = [chunks EXCEPT ![r] = p]
           /\ payload' = [payload EXCEPT ![r] = p]
           /\ pc' = [pc EXCEPT ![r] = "stream"]
           /\ log' = [log EXCEPT ![r] = Append(@, "streaming")]
      ELSE /\ pc' = [pc EXCEPT ![r] = "respond"]
           /\ log' = [log EXCEPT ![r] = Append(@, "tts_failed")]
           /\ UNCHANGED <<fname, disk, pos, buf, chunks, payload>>
   /\ UNCHANGED <<cfgvars, seasonvars, clock, body, bot_text, gen_text, tts_text,
                  audio_url, response>>

\* a write of the bytes c at offset p of a file holding data; a gap between
\* the end of the file and p reads as zeros
WriteAt(data, p, c) ==
   LET end == p + Len(c)
       len == IF Len(data) > end THEN Len(data) ELSE end
   IN  [i \in 1..len |->
          IF i > p /\ i <= end THEN c[i - p]
          ELSE IF i <= Len(data) THEN data[i] ELSE 0]

\* the file once the bytes b buffered for offset p have been written out
Flushed(data, p, b) == IF b = << >> THEN data ELSE WriteAt(data, p, b)

\* One turn of the loop over r.iter_content: "if chunk: f.write(chunk)".
\* The file object is buffered: the bytes go to its buffer.
WriteChunk(r) ==
   /\ pc[r] = "stream"
   /\ chunks[r] # << >>
   /\ buf' = [buf EXCEPT ![r] = @ \o Head(chunks[r])]
   /\ chunks' = [chunks EXCEPT ![r] = Tail(@)]
   /\ UNCHANGED <<cfgvars, seasonvars, clock, disk, body, bot_text, gen_text,
                  tts_text, fname, pos, payload, audio_url, response, log, pc>>

\* The buffer is written out at the file object's offset.  When this happens
\* between two writes depends on the buffer size and on the chunk sizes, so
\* it may happen after any write.
Flush(r) ==
   /\ pc[r] = "stream"
   /\ buf[r] # << >>
   /\ disk' = [disk EXCEPT ![fname[r]].data = Flushed(@, pos[r], buf[r])]
   /\ pos' = [pos EXCEPT ![r] = @ + Len(buf[r])]
   /\ buf' = [buf EXCEPT ![r] = << >>]
   /\ UNCHANGED <<cfgvars, seasonvars, clock, body, bot_text, gen_text, tts_text,
                  fname, chunks, payload, audio_url, response, log, pc>>

\* tts_to_file returning the url of a file whose write failed
StreamError_ReturnsUrl(r) ==
   /\ pc[r] = "stream"
   /\ disk' = [disk EXCEPT ![fname[r]].data = Flushed(@, pos[r], buf[r])]
   /\ pc' = [pc EXCEPT ![r] = "respond"]
   /\ log' = [log EXCEPT ![r] = Append(@, "stream_failed")]
   /\ pos' = [pos EXCEPT ![r] = 0]
   /\ buf' = [buf EXCEPT ![r] = << >>]
   /\ chunks' = [chunks EXCEPT ![r] = << >>]
   /\ audio_url' = [audio_url EXCEPT ![r] = AudioUrl(fname[r])]
   /\ UNCHANGED <<cfgvars, seasonvars, clock, body, bot_text, gen_text,
                  tts_text, fname, payload, response>>

\* iter_content or f.write raises: the with blocks close the file, which
\* writes out what is buffered, and tts_to_file returns None
StreamError(r) ==
   /\ pc[r] = "stream"
   /\ disk' = [disk EXCEPT ![fname[r]].data = Flushed(@, pos[r], buf[r])]
   /\ pc' = [pc EXCEPT ![r] = "respond"]
   /\ log' = [log EXCEPT ![r] = Append(@, "stream_failed")]
   /\ pos' = [pos EXCEPT ![r] = 0]
   /\ buf' = [buf EXCEPT ![r] = << >>]
   /\ chunks' = [chunks EXCEPT ![r] = << >>]
   /\ UNCHANGED <<cfgvars, seasonvars, clock, body, bot_text, gen_text,
                  tts_text, fname, payload, audio_url, response>>

\* the stream is exhausted: the file is closed, which writes out what is
\* buffered, and tts_to_file returns the url
CloseFile(r) ==
   /\ pc[r] = "stream"
   /\ chunks[r] = << >>
   /\ disk' = [disk EXCEPT ![fname[r]].data = Flushed(@, pos[r], buf[r])]
   /\ audio_url' = [audio_url EXCEPT ![r] = AudioUrl(fname[r])]
   /\ pc' = [pc EXCEPT ![r] = "respond"]
   /\ log' = [log EXCEPT ![r] = Append(@, "synthesised")]
   /\ pos' = [pos EXCEPT ![r] = 0]
   /\ buf' = [buf EXCEPT ![r] = << >>]
   /\ UNCHANGED <<cfgvars, seasonvars, clock, body, bot_text, gen_text,
                  tts_text, fname, chunks, payload, response>>

\* return jsonify({"text": bot_text, "audioUrl": audio_url})
Respond(r) ==
   /\ pc[r] = "respond"
   /\ response' = [response EXCEPT ![r] = Reply(bot_text[r], audio_url[r])]
   /\ pc' = [pc EXCEPT ![r] = "done"]
   /\ log' = [log EXCEPT ![r] = Append(@, "response")]
   /\ UNCHANGED <<cfgvars, seasonvars, clock, disk, body, bot_text, gen_text,
                  tts_text, fname, pos, buf, chunks, payload, audio_url>>

\* a millisecond passes
Tick ==
   /\ clock < MaxClock
   /\ clock' = clock + 1
   /\ UNCHANGED <<cfgvars, seasonvars, disk, pc, body, bot_text, gen_text, tts_text,
                  fname, pos, buf, chunks, payload, audio_url, response, log>>

Next ==
   \/ \E r \in Reqs, b \in Bodies : Chat(r, b)
   \/ \E r \in Reqs, o \in GenOutcomes : GenerateContent(r, o)
   \/ \E r \in Reqs, draw \in Draws, choice \in Choices : Season(r, draw, choice)
   \/ \E r \in Reqs, o \in TtsOutcomes, p \in Payloads : TtsPost(r, o, p)
   \/ \E r \in Reqs : WriteChunk(r)
   \/ \E r \in Reqs : Flush(r)
   \/ \E r \in Reqs : StreamError(r)
   \/ \E r \in Reqs : CloseFile(r)
   \/ \E r \in Reqs : Respond(r)
   \/ Tick

Spec == Init /\ [][Next]_vars

(***************************************************************************)
(* lightly_season on its own: a text is seasoned again and again.          *)
(***************************************************************************)
TEXT_PLAIN == << "O", "k", "." >>

\* a catchphrase without its last character
TEXT_ALMOST == SubSeq(CP_RIGHT_THEN, 1, Len(CP_RIGHT_THEN) - 1)

SeasonTexts ==
   { << >>, TEXT_PLAIN, TEXT_ALMOST, TEXT_PHRASED, CP_GOT_IT, FALLBACK_APOLOGY,
     FALLBACK_GREETING }

SeasonInit ==
   /\ ConfigInit
   /\ RequestsInit
   /\ s_text \in SeasonTexts
   /\ s_orig = s_text
   /\ s_count = 0

SeasonAgain(draw, choice) ==
   /\ s_count < MaxSeasonings
   /\ s_text' = lightly_season(s_text, draw, choice)
   /\ s_count' = s_count + 1
   /\ UNCHANGED <<cfgvars, reqvars, s_orig>>

SeasonNext == \E draw \in Draws, choice \in Choices : SeasonAgain(draw, choice)

SpecSeason == SeasonInit /\ [][SeasonNext]_vars

(***************************************************************************)
(* Vocabulary of the properties.                                           *)
(***************************************************************************)
Logged(r, e) == \E i \in 1..Len(log[r]) : log[r][i] = e

Count(r, e) == Cardinality({i \in 1..Len(log[r]) : log[r][i] = e})

IsPrefix(a, b) == Len(a) <= Len(b) /\ SubSeq(b, 1, Len(a)) = a

\* the request carries a message that is a non-empty string once trimmed
HasMessage(b) ==
   /\ b.raw = "json"
   /\ b.val.t = "dict"
   /\ b.msg.t = "str"
   /\ strip(b.msg.s) # << >>

\* the request carries no message at all, or one that is blank
MessageMissingOrBlank(b) ==
   \/ b.raw # "json"
   \/ b.val.t # "dict"
   \/ b.msg.t \in {"absent", "None"}
   \/ b.msg.t = "str" /\ strip(b.msg.s) = << >>

\* the step that sends r's response
Sends(r) == pc[r] = "respond" /\ pc'[r] = "done"

Seasoned(text) ==
   {text} \cup {catchphrases[i] \o << " " >> \o text : i \in 1..Len(catchphrases)}

SeasoningOff == catchphrase_prob = 0 \/ catchphrases = << >>

(***************************************************************************)
(* C1.  At the moment a response with a non-null audioUrl is sent, no      *)
(* request has the file it names open for writing.                         *)
(***************************************************************************)
C1_AudioClosedWhenSent ==
   [][\A r \in Reqs :
        (Sends(r) /\ audio_url[r] # None) =>
           ~(\E q \in Reqs : pc[q] = "stream" /\ fname[q] = fname[r])]_vars

(***************************************************************************)
(* C2.  A finished request has status 400 exactly when its message is      *)
(* missing or blank, and status 200 otherwise.                             *)
(***************************************************************************)
C2_StatusIs400Or200 ==
   \A r \in Reqs :
      pc[r] = "done" =>
         response[r].status = (IF MessageMissingOrBlank(body[r]) THEN 400 ELSE 200)

(***************************************************************************)
(* C3.  A request whose message is missing or blank is answered 400 "No    *)
(* message provided" and makes no external call and no file.               *)
(***************************************************************************)
C3_RejectedWithoutCalls ==
   \A r \in Reqs :
      (pc[r] # "idle" /\ MessageMissingOrBlank(body[r])) =>
         /\ response[r] = BadRequest
         /\ Count(r, "generate_content") = 0
         /\ Count(r, "post") = 0
         /\ ~Logged(r, "streaming")

(***************************************************************************)
(* C4 as stated.  When text generation fails, the text of the response is  *)
(* the fallback apology exactly, and speech synthesis is called once with  *)
(* that fallback.                                                          *)
(***************************************************************************)
C4_FallbackExactly ==
   \A r \in Reqs :
      (pc[r] = "done" /\ Logged(r, "generate_failed")) =>
         /\ response[r].text = FALLBACK_APOLOGY
         /\ tts_text[r] = FALLBACK_APOLOGY
         /\ Count(r, "post") = 1

(***************************************************************************)
(* C4 as amended.  When text generation fails, the text of the response is *)
(* the fallback apology, either as it is or behind one configured          *)
(* catchphrase and a space, and it is the apology as it is when seasoning  *)
(* is off; speech synthesis is called once, with the text of the response. *)
(***************************************************************************)
C4_FallbackPossiblySeasoned ==
   \A r \in Reqs :
      (pc[r] = "done" /\ Logged(r, "generate_failed")) =>
         /\ response[r].status = 200
         /\ response[r].text \in Seasoned(FALLBACK_APOLOGY)
         /\ SeasoningOff => response[r].text = FALLBACK_APOLOGY
         /\ tts_text[r] = response[r].text
         /\ Count(r, "post") = 1

C4_Witness ==
   \E r \in Reqs :
      /\ pc[r] = "done"
      /\ Logged(r, "generate_failed")
      /\ response[r].text = CP_GOT_IT \o << " " >> \o FALLBACK_APOLOGY
      /\ tts_text[r] = response[r].text

(***************************************************************************)
(* C5.  When speech synthesis fails, before or while the file is written,  *)
(* the response is 200 with a null audioUrl and the non-empty text that    *)
(* was handed to the synthesis step.                                       *)
(***************************************************************************)
TtsFailed(r) == Logged(r, "tts_failed") \/ Logged(r, "stream_failed")

C5_TtsFailureKeepsText ==
   \A r \in Reqs :
      /\ (TtsFailed(r) /\ pc[r] # "done") => pc[r] = "respond"
      /\ (TtsFailed(r) /\ pc[r] = "done") =>
            /\ response[r].status = 200
            /\ response[r].audioUrl = None
            /\ response[r].text # << >>
            /\ response[r].text = tts_text[r]

C5_Witness ==
   \E r \in Reqs :
      /\ pc[r] = "done"
      /\ Logged(r, "stream_failed")
      /\ disk[fname[r]].exists
      /\ response[r] = Reply(tts_text[r], None)

(***************************************************************************)
(* C6.  No two requests open the same file of the audio directory.         *)
(***************************************************************************)
C6_DistinctFileNames ==
   \A r, q \in Reqs :
      (r # q /\ Logged(r, "streaming") /\ Logged(q, "streaming")) =>
         fname[r] # fname[q]

(***************************************************************************)
(* C7.  When both collaborators succeeded, the response sent names a file  *)
(* that exists and holds exactly the bytes supplied for that request.      *)
(***************************************************************************)
C7_FileHoldsPayload ==
   [][\A r \in Reqs :
        (Sends(r) /\ Logged(r, "generated") /\ Logged(r, "synthesised")) =>
           /\ response'[r].audioUrl = AudioUrl(fname[r])
           /\ disk[fname[r]].exists
           /\ disk[fname[r]].data = Flatten(payload[r])]_vars

(***************************************************************************)
(* C8.  The external calls of a request with a message are, in order, one  *)
(* generate_content call that returns or raises, one post, the response.   *)
(***************************************************************************)
TtsRuns ==
   { <<"tts_failed">>, <<"streaming", "stream_failed">>, <<"streaming", "synthesised">> }

FullLogs ==
   { <<"generate_content", g, "post">> \o t \o <<"response">> :
        g \in {"generated", "generate_failed"}, t \in TtsRuns }

C8_OneCallEachInOrder ==
   \A r \in Reqs :
      (pc[r] # "idle" /\ HasMessage(body[r])) =>
         /\ \E full \in FullLogs : IsPrefix(log[r], full)
         /\ pc[r] = "done" => log[r] \in FullLogs

C8_Witness ==
   \E r \in Reqs :
      /\ pc[r] = "done"
      /\ log[r] = <<"generate_content", "generate_failed", "post", "streaming",
                    "stream_failed", "response">>

(***************************************************************************)
(* C9.  A text that starts with a catchphrase is never seasoned, and a     *)
(* text seasoned any number of times carries at most one catchphrase more  *)
(* than it started with.                                                   *)
(***************************************************************************)
C9_NeverDoubled ==
   /\ StartsWithCatchphrase(s_orig) => s_text = s_orig
   /\ s_text \in Seasoned(s_orig)

C9_Witness ==
   /\ s_count = 3
   /\ s_orig = FALLBACK_APOLOGY
   /\ s_text = CP_NO_PROBLEM \o << " " >> \o FALLBACK_APOLOGY
   /\ catchphrase_prob = 100

(***************************************************************************)
(* C10.  With probability 0 or no catchphrases, the text posted to speech  *)
(* synthesis and the text of the response are the text generation left.    *)
(***************************************************************************)
C10_SeasoningOffIsNoOp ==
   SeasoningOff =>
      \A r \in Reqs :
         /\ pc[r] \in {"post", "stream", "respond", "done"} =>
               /\ bot_text[r] = gen_text[r]
               /\ tts_text[r] = gen_text[r]
         /\ (pc[r] = "done" /\ HasMessage(body[r])) =>
               /\ response[r].status = 200
               /\ response[r].text = gen_text[r]

C10_Witness ==
   \E r \in Reqs :
      /\ catchphrase_prob = 0
      /\ catchphrases = CATCHPHRASES
      /\ pc[r] = "done"
      /\ gen_text[r] = FALLBACK_GREETING
      /\ response[r] = Reply(FALLBACK_GREETING, AudioUrl(fname[r]))

====
